---- MODULE Spec2Model ----
(***************************************************************************)
(* Model of the voice assistant's turn controller (the one-shot            *)
(* VoiceProcessor of js/voice.js driven by VoiceAssistantApp of js/main.js)*)
(* and of its call client (N8nClient and Utils.retry of js/n8n.js).        *)
(*                                                                         *)
(* The browser is single threaded: every action below is one task of the   *)
(* event loop (an event handler, a timer callback, or the continuation of  *)
(* an await together with the microtasks it triggers).                     *)
(***************************************************************************)
EXTENDS Integers, Sequences, FiniteSets, Bags, TLC

(***************************************************************************)
(* Bounds of the model.                                                    *)
(***************************************************************************)
\* processFinalResult invocations that may be suspended at the same time
\* (SpecOverlap allows one more)
MaxProcs == 1
\* startListening invocations that may be awaiting the microphone permission
MaxStarters == 1
\* largest retryAttempts that updateConfig sets
MaxRetryAttempts == 3
\* auto-restart timers of one kind that may be armed at the same time
MaxTimers == 1

\* longest list body given to _processResponse
MaxListLen == 1

\* longest text given to isValidSpeech and to sanitizeForSpeech
MaxTextLen == 3

\* startVoiceLevelMonitoring invocations that may be awaiting getUserMedia
MaxMonitors == 1

\* turns delivered to handleVoiceResult, and those of them without a reply
\* text
MaxTurns == 27
MaxSilentTurns == 2

(***************************************************************************)
(* Program constants.                                                      *)
(***************************************************************************)
minSpeechLength == 3
minSpeechDuration == 500
silenceThreshold == 2000
retryAttemptsDefault == 3
retryDelayDefault == 1000
timeoutDefault == 30000
maxMessages == 50

(***************************************************************************)
(* Texts are sequences of one-character strings.                           *)
(***************************************************************************)
IsSpace(c) == c \in {" ", "\n", "\t"}

IsLetter(c) == c \in {"a", "d", "e", "h", "m", "n", "s", "u",
                      "A", "D", "E", "H", "M", "N", "S", "U"}

IsPunct(c) == c \in {".", ",", ";", ":", "!", "?"}

ToLower(c) ==
    CASE c = "A" -> "a" [] c = "D" -> "d" [] c = "E" -> "e" [] c = "H" -> "h"
      [] c = "M" -> "m" [] c = "N" -> "n" [] c = "S" -> "s" [] c = "U" -> "u"
      [] OTHER -> c

LowerCase(s) == [i \in 1..Len(s) |-> ToLower(s[i])]

RECURSIVE TrimLeft(_)
TrimLeft(s) ==
    IF s = <<>> THEN s
    ELSE IF IsSpace(Head(s)) THEN TrimLeft(Tail(s)) ELSE s

RECURSIVE TrimRight(_)
TrimRight(s) ==
    IF s = <<>> THEN s
    ELSE IF IsSpace(s[Len(s)]) THEN TrimRight(SubSeq(s, 1, Len(s) - 1)) ELSE s

\* String.prototype.trim
Trim(s) == TrimRight(TrimLeft(s))

\* cleanText.split(/\s+/).filter(word => word.length > 0).length
WordCount(s) ==
    Cardinality({i \in 1..Len(s) :
        /\ ~IsSpace(s[i])
        /\ (i = 1 \/ IsSpace(s[i - 1]))})

\* /^(uh|um|ah|eh|mm|hmm)$/i
Interjections ==
    { <<"u", "h">>, <<"u", "m">>, <<"a", "h">>, <<"e", "h">>,
      <<"m", "m">>, <<"h", "m", "m">> }

\* the noisePatterns list of isValidSpeech
MatchesNoisePattern(s) ==
    \/ LowerCase(s) \in Interjections
    \/ (Len(s) >= 1 /\ \A i \in 1..Len(s) : IsPunct(s[i]))
    \/ \A i \in 1..Len(s) : IsSpace(s[i])
    \/ (Len(s) = 1 /\ IsLetter(s[1]))

\* VoiceProcessor.isValidSpeech (one-shot)
isValidSpeech(text) ==
    IF text = <<>> THEN FALSE
    ELSE LET cleanText == Trim(text) IN
         IF Len(cleanText) < minSpeechLength THEN FALSE
         ELSE IF WordCount(cleanText) < 1 THEN FALSE
         ELSE IF MatchesNoisePattern(cleanText) THEN FALSE
         ELSE TRUE

(***************************************************************************)
(* The transcripts the recognizer delivers in the model.                   *)
(***************************************************************************)
T_empty == <<>>
T_um == <<"u", "m">>
T_hmm == <<"H", "m", "m">>
T_send == <<" ", "s", "e", "n", "d">>
T_interim == <<"s", "e">>

\* response.text of a reply that has a text
T_reply == <<"o", "k">>

FinalTranscripts == {T_empty, T_um, T_hmm, T_send}
InterimTranscripts == {T_empty, T_interim}


(***************************************************************************)
(* State.                                                                  *)
(*                                                                         *)
(* A suspended invocation of processFinalResult is a record                *)
(*   [pc, text, attempt, reply, err, discard]                              *)
(* kept where its promise is: in `pending` while it awaits sendWithRetry   *)
(* (pc "fetch": a request is in flight, "backoff": Utils.wait), and with   *)
(* its utterance while it awaits speak (pc "speakReply", "speakApology").  *)
(***************************************************************************)
VARIABLES
    isListening,      \* VoiceProcessor.isListening
    isSpeaking,       \* VoiceProcessor.isSpeaking
    silenceTimeout,   \* VoiceProcessor.silenceTimeout: "none", "armed", "fired"
    speechStartTime,  \* VoiceProcessor.speechStartTime: 0, or 1 once set
    status,           \* last status given to onStatusChange ("none" before any)
    rec,              \* the recognizer: "idle", "starting", "active",
                      \*   "stopping" (stop() called), "failed" (error raised)
    pending,          \* bag of the invocations awaiting sendWithRetry
    queue,            \* speechSynthesis' utterance queue, head first
    cancelled,        \* bag of the utterances cancel() removed, event not yet fired
    synthOk,          \* whether the speech output engine is usable at all
    starters,         \* startListening invocations awaiting getUserMedia
    autoStart,        \* the auto-start timer of VoiceAssistantApp.initialize
    n8nUrl,           \* configManager.config.n8nUrl: "" or a valid URL, "good"
    baseUrl,          \* n8nClient.baseUrl
    capacity,         \* bound of the model: how many invocations may be suspended
    fx,               \* the calls and callbacks made by the last task, in order
    save,             \* VoiceAssistantApp.saveSettings: the URL whose connection
                      \*   test is awaited ("" when none), isFirstRun, and the
                      \*   armed start timer of the first save (SettingsSpec)
    cont,             \* the continuous variant: configManager's autoListen, and
                      \*   the armed auto-restart timers of recognition.onend
                      \*   (endTimers) and of the utterance's onend (speakTimers)
    retryAttempts,    \* n8nClient.retryAttempts
    retryDelay,       \* n8nClient.retryDelay
    call,             \* one sendWithRetry call followed step by step (ClientSpec)
    norm,             \* one response given to _processResponse: its body and
                      \*   what _processResponse made of it (NormalizeSpec)
    heard,            \* one text given to isValidSpeech, the reply spoken
                      \*   before it, and the verdict (ValidatorSpec)
    spoken,           \* one text given to Utils.sanitizeForSpeech, what it
                      \*   returned, and what it returned for that (SanitizeSpec)
    mon,              \* voice-level monitoring: the startVoiceLevelMonitoring
                      \*   invocations awaiting getUserMedia, the fields
                      \*   isMonitoringVoiceLevel, voiceLevelInterval (set) and
                      \*   audioContext (open), whether a stream it obtained
                      \*   has live tracks, and whether an interval and a
                      \*   context were overwritten while in use (MonitorSpec)
    conv              \* the conversation display: its message elements, oldest
                      \*   first, and how many turns and messages were added
                      \*   (ConversationSpec)

\* the turn controller's variables
ctlVars == << isListening, isSpeaking, silenceTimeout, speechStartTime, status,
              rec, pending, queue, cancelled, synthOk, starters,
              autoStart, n8nUrl, baseUrl, capacity, fx, cont, save >>

\* the call client's variables (baseUrl is shared)
cliVars == << retryAttempts, retryDelay, call >>

\* the variables of the texts given to the two pure functions
txtVars == << heard, spoken >>

\* the variables of the page's displays
uiVars == << mon, conv >>

vars == << ctlVars, cliVars, norm, txtVars, uiVars >>

\* one effect: a call into an engine or a callback to the UI; `a` is its
\* argument, `t` the transcript, `d` the discard mark and `n` the attempt
\* of the invocation
Fx(e, a) == [e |-> e, a |-> a, t |-> <<>>, d |-> FALSE, n |-> 0]

\* the state as one record, so that a handler is a function of the state
Cur ==
    [ isListening |-> isListening, isSpeaking |-> isSpeaking,
      silenceTimeout |-> silenceTimeout, speechStartTime |-> speechStartTime,
      status |-> status, rec |-> rec, pending |-> pending, queue |-> queue,
      cancelled |-> cancelled, synthOk |-> synthOk, starters |-> starters,
      autoStart |-> autoStart, n8nUrl |-> n8nUrl, baseUrl |-> baseUrl,
      capacity |-> capacity, fx |-> <<>>, cont |-> cont, save |-> save ]

Assign(s) ==
    /\ isListening' = s.isListening
    /\ isSpeaking' = s.isSpeaking
    /\ silenceTimeout' = s.silenceTimeout
    /\ speechStartTime' = s.speechStartTime
    /\ status' = s.status
    /\ rec' = s.rec
    /\ pending' = s.pending
    /\ queue' = s.queue
    /\ cancelled' = s.cancelled
    /\ synthOk' = s.synthOk
    /\ starters' = s.starters
    /\ autoStart' = s.autoStart
    /\ n8nUrl' = s.n8nUrl
    /\ baseUrl' = s.baseUrl
    /\ capacity' = s.capacity
    /\ fx' = s.fx
    /\ cont' = s.cont
    /\ save' = s.save

\* a task of the controller that leaves voice-level monitoring alone
Set(s) == Assign(s) /\ UNCHANGED << cliVars, norm, txtVars, uiVars >>

Emit(s, e, a) == [s EXCEPT !.fx = Append(@, Fx(e, a))]

\* an effect of invocation v
EmitOf(s, e, a, v) ==
    [s EXCEPT !.fx = Append(@, [Fx(e, a) EXCEPT !.t = v.text, !.d = v.discard,
                                                !.n = v.attempt])]

\* the suspended invocations
Suspended ==
    BagCardinality(pending) + Len(queue) + BagCardinality(cancelled)

(***************************************************************************)
(* VoiceProcessor (one-shot): the synchronous helpers.                     *)
(***************************************************************************)
\* VoiceProcessor.updateStatus -> VoiceAssistantApp.handleStatusChange
updateStatus(s, st) == Emit([s EXCEPT !.status = st], "status", st)

\* VoiceProcessor.stopListening
stopListening(s) ==
    IF ~s.isListening THEN s
    ELSE Emit([s EXCEPT
                 !.rec = IF @ \in {"starting", "active"} THEN "stopping" ELSE @,
                 !.silenceTimeout = "none"],
              "recStop", "")

\* speechSynthesis.speaking
SynthSpeaking(s) == \E i \in 1..Len(s.queue) : s.queue[i].st = "speaking"

RECURSIVE SeqToBag(_)
SeqToBag(q) ==
    IF q = <<>> THEN EmptyBag ELSE SetToBag({Head(q).v}) (+) SeqToBag(Tail(q))

\* VoiceProcessor.stopSpeaking; cancel() empties the queue, and each removed
\* utterance still gets its end or error event
stopSpeaking(s) ==
    IF SynthSpeaking(s)
    THEN Emit([s EXCEPT
                 !.cancelled = @ (+) SeqToBag(s.queue),
                 !.queue = <<>>,
                 !.isSpeaking = FALSE],
              "cancel", "")
    ELSE [s EXCEPT !.isSpeaking = FALSE]

\* the Promise executor of VoiceProcessor.speak, when nothing in it throws;
\* invocation v then awaits the utterance at pc (its discard mark is kept
\* until its Exchange has settled, and shows in the effects of that task)
Enqueue(s, v, pc, what) ==
    LET s1 == stopSpeaking(s) IN
    EmitOf([s1 EXCEPT !.queue = Append(@, [v |-> [v EXCEPT !.pc = pc,
                                                           !.discard = FALSE],
                                           st |-> "queued"])],
           "speak", what, v)

(***************************************************************************)
(* processFinalResult after its awaits.                                    *)
(***************************************************************************)
\* the end of the catch block, reporting an 'error' status
AfterApologyErrorStatus(s, v, ok) ==
    IF ok
    THEN updateStatus(EmitOf(s, "onError", v.err, v), "error")
    ELSE EmitOf(s, "unhandledRejection", "", v)

\* after `await this.speak(apology)` in the catch block
AfterApology(s, v, ok) ==
    IF ok
    THEN updateStatus(EmitOf(s, "onError", v.err, v), "ready")
    ELSE EmitOf(s, "unhandledRejection", "", v)

\* the catch block: speak the apology (speak's own catch rejects when the
\* output engine throws)
SpeakApology(s, v) ==
    IF s.synthOk
    THEN Enqueue(s, v, "speakApology", "apology")
    ELSE AfterApology([s EXCEPT !.isSpeaking = FALSE], v, FALSE)

\* one message added to the conversation display
AddMessage(s, role, text) ==
    [s EXCEPT !.fx = Append(@, [Fx("addMessage", role) EXCEPT !.t = text])]

\* VoiceAssistantApp.handleVoiceResult(transcript, response)
handleVoiceResult(s, v) ==
    LET s1 == AddMessage(s, "user", v.text) IN
    IF v.reply = "text" THEN AddMessage(s1, "assistant", T_reply) ELSE s1

\* after `await this.speak(...)` in the try block
AfterReply(s, v, ok) ==
    IF ok
    THEN updateStatus(handleVoiceResult(EmitOf(s, "onResult", v.reply, v), v),
                      "ready")
    ELSE SpeakApology(s, [v EXCEPT !.err = "speech"])

\* sendWithRetry resolved with `response`
ExchangeResolved(s, v, reply) ==
    LET v1 == [v EXCEPT !.reply = reply]
        what == IF reply = "text" THEN "reply" ELSE "noResponse" IN
    IF s.synthOk
    THEN Enqueue(s, v1, "speakReply", what)
    ELSE AfterReply([s EXCEPT !.isSpeaking = FALSE], v1, FALSE)

\* sendWithRetry rejected with `err`
ExchangeRejected(s, v, err) == SpeakApology(s, [v EXCEPT !.err = err])

(***************************************************************************)
(* Utils.retry, as sendWithRetry calls it.                                 *)
(***************************************************************************)
\* the test of the last attempt, one too late
LastAttemptOffByOne(attempt, maxAttempts) == attempt > maxAttempts

\* the backoff delay, doubled once too often
BackoffDelayDoubled(attempt, baseDelay) == baseDelay * 2 ^ attempt

\* `if (attempt === maxAttempts) throw lastError`
LastAttempt(attempt, maxAttempts) == attempt = maxAttempts

\* `baseDelay * Math.pow(2, attempt - 1)`
BackoffDelay(attempt, baseDelay) == baseDelay * 2 ^ (attempt - 1)

\* a retry loop that lets every failed attempt reach the caller
AttemptFailedSurfaced(s, v, err) == ExchangeRejected(s, v, err)

\* the catch block of Utils.retry for a failed attempt of invocation v
AttemptFailed(s, v, err) ==
    IF LastAttempt(v.attempt, retryAttemptsDefault)
    THEN ExchangeRejected(s, v, err)
    ELSE EmitOf([s EXCEPT !.pending = @ (+) SetToBag({[v EXCEPT !.pc = "backoff"]})],
                "wait", err, v)

\* N8nClient.sendVoiceInput up to its await of fetch; v.url keeps the
\* endpoint URL that the Exchange's first attempt found in this.baseUrl
StartAttempt(s, v0) ==
    LET v == IF v0.attempt = 1 THEN [v0 EXCEPT !.url = s.baseUrl] ELSE v0 IN
    IF s.baseUrl = ""
    THEN AttemptFailed(s, v, "unconfigured")
    ELSE EmitOf([s EXCEPT !.pending = @ (+) SetToBag({[v EXCEPT !.pc = "fetch"]})],
                "fetch", s.baseUrl, v)

(***************************************************************************)
(* VoiceProcessor.processFinalResult (one-shot), up to its first await.    *)
(***************************************************************************)
NewInvocation(text) ==
    [pc |-> "fetch", text |-> Trim(text), attempt |-> 1,
     reply |-> "none", err |-> "none", discard |-> FALSE, url |-> "none"]

\* processFinalResult without its validation
processFinalResultUnvalidated(s, text) ==
    LET s1 == stopListening(
                  [s EXCEPT !.fx = Append(@, [Fx("processFinalResult", "")
                                                EXCEPT !.t = text])])
        v == NewInvocation(text)
    IN StartAttempt(EmitOf(updateStatus(s1, "processing"),
                           "sendWithRetry", "", v), v)

\* processFinalResult validating first, and stopping capture on accept only
processFinalResultValidateFirst(s, text) ==
    LET s0 == [s EXCEPT !.fx = Append(@, [Fx("processFinalResult", "")
                                            EXCEPT !.t = text])]
    IN IF ~isValidSpeech(text)
       THEN updateStatus(s0, "ready")
       ELSE LET v == NewInvocation(text) IN
            StartAttempt(EmitOf(updateStatus(stopListening(s0), "processing"),
                                "sendWithRetry", "", v), v)

processFinalResult(s, text) ==
    LET s1 == stopListening(
                  [s EXCEPT !.fx = Append(@, [Fx("processFinalResult", "")
                                                EXCEPT !.t = text])])
    IN IF ~isValidSpeech(text)
       THEN updateStatus(s1, "ready")
       ELSE LET v == NewInvocation(text) IN
            StartAttempt(EmitOf(updateStatus(s1, "processing"),
                                "sendWithRetry", "", v), v)

(***************************************************************************)
(* ConfigManager.                                                          *)
(***************************************************************************)
\* ConfigManager.validateN8nUrl: a parsable http(s) URL
validateN8nUrl(url) == url \in {"good", "other"}

\* ConfigManager.isConfigured
isConfigured(s) == validateN8nUrl(s.n8nUrl)

(***************************************************************************)
(* N8nClient: one sendWithRetry call, followed through Utils.retry,        *)
(* sendVoiceInput, _makeRequest and _processResponse.                      *)
(*                                                                         *)
(* call.pc is where the call is suspended: "fetch" (await fetch), "body"   *)
(* (await response.json() or .text()), "wait" (await Utils.wait), or how   *)
(* it settled ("resolved", "rejected"); call.timer is the delay of the     *)
(* abort timer of _makeRequest while it is set, 0 otherwise.  sends,       *)
(* outcomes and waits record what the loop of Utils.retry did; response is *)
(* what fetch gave the current attempt: "none" yet, a response whose ok    *)
(* flag is set ("ok"), or one whose ok flag is not ("bad").                *)
(***************************************************************************)
IdleCall ==
    [pc |-> "idle", text |-> <<>>, maxAttempts |-> 0, baseDelay |-> 0,
     attempt |-> 0, timer |-> 0, sends |-> 0, outcomes |-> <<>>,
     waits |-> <<>>, result |-> [kind |-> "none", val |-> ""],
     response |-> "none"]

\* the catch block of Utils.retry
retryCatch(c, err) ==
    LET c1 == [c EXCEPT !.outcomes = Append(@, [ok |-> FALSE, val |-> err])] IN
    IF LastAttempt(c.attempt, c.maxAttempts)
    THEN [c1 EXCEPT !.pc = "rejected", !.result = [kind |-> "error", val |-> err]]
    ELSE [c1 EXCEPT !.pc = "wait",
                    !.waits = Append(@, BackoffDelay(c.attempt, c.baseDelay))]

\* `return await fn()` of Utils.retry
retryReturn(c, val) ==
    [c EXCEPT !.outcomes = Append(@, [ok |-> TRUE, val |-> val]),
              !.pc = "resolved",
              !.result = [kind |-> "value", val |-> val]]

\* N8nClient._makeRequest up to its await of fetch
makeRequest(c) == [c EXCEPT !.pc = "fetch", !.timer = timeoutDefault]

\* N8nClient.sendVoiceInput up to its first await
sendVoiceInput(c, url) ==
    IF url = "" THEN retryCatch(c, "n8n URL not configured")
    ELSE IF Trim(c.text) = <<>> THEN retryCatch(c, "No text provided")
    ELSE makeRequest(c)

\* the head of the loop of Utils.retry; past the loop the function returns
\* nothing
retryLoop(c) ==
    IF c.attempt <= c.maxAttempts
    THEN sendVoiceInput([c EXCEPT !.sends = @ + 1, !.response = "none"], baseUrl)
    ELSE [c EXCEPT !.pc = "resolved", !.result = [kind |-> "undefined", val |-> ""]]

\* N8nClient._processResponse once the body has been read; `data` is what
\* the body holds: a "text" to speak, a "blank" text (sanitizeForSpeech
\* trims it to the empty string), an "errorField", or "malformed" JSON
processResponse(c, data) ==
    IF data \in {"errorField", "malformed"}
    THEN retryCatch(c, "Failed to process response from n8n")
    ELSE retryReturn(c, IF data = "blank" THEN "" ELSE data)

\* N8nClient.updateConfig({retryAttempts: n, retryDelay: d})
UpdateConfig(n, d) ==
    /\ call.pc = "idle"
    /\ retryAttempts' = n
    /\ retryDelay' = IF d # 0 THEN d ELSE retryDelay
    /\ UNCHANGED << call, ctlVars, norm, txtVars, uiVars >>

\* N8nClient.sendWithRetry(text)
sendWithRetry(text) ==
    /\ call.pc = "idle"
    /\ call' = retryLoop([IdleCall EXCEPT !.text = text,
                                          !.maxAttempts = retryAttempts,
                                          !.baseDelay = retryDelay,
                                          !.attempt = 1])
    /\ UNCHANGED << retryAttempts, retryDelay, ctlVars, norm, txtVars, uiVars >>

\* fetch rejects (the network fails)
FetchRejects ==
    /\ call.pc = "fetch"
    /\ call' = retryCatch([call EXCEPT !.timer = 0], "network")
    /\ UNCHANGED << retryAttempts, retryDelay, ctlVars, norm, txtVars, uiVars >>

\* _makeRequest without its test of response.ok
FetchResolvesUnchecked(ok) ==
    /\ call.pc = "fetch"
    /\ call' = [call EXCEPT !.timer = 0, !.pc = "body",
                            !.response = IF ok THEN "ok" ELSE "bad"]
    /\ UNCHANGED << retryAttempts, retryDelay, ctlVars, norm, txtVars, uiVars >>

\* fetch resolves with the response's status line and headers
FetchResolves(ok) ==
    /\ call.pc = "fetch"
    /\ call' = IF ok
               THEN [call EXCEPT !.timer = 0, !.pc = "body", !.response = "ok"]
               ELSE retryCatch([call EXCEPT !.timer = 0, !.response = "bad"],
                               "HTTP")
    /\ UNCHANGED << retryAttempts, retryDelay, ctlVars, norm, txtVars, uiVars >>

\* response.json() or response.text() settles
BodyArrives(data) ==
    /\ call.pc = "body"
    /\ call' = processResponse(call, data)
    /\ UNCHANGED << retryAttempts, retryDelay, ctlVars, norm, txtVars, uiVars >>

\* the abort timer of _makeRequest fires: fetch rejects with an AbortError
TimeoutFires ==
    /\ call.timer # 0
    /\ call' = retryCatch([call EXCEPT !.timer = 0], "Request timeout")
    /\ UNCHANGED << retryAttempts, retryDelay, ctlVars, norm, txtVars, uiVars >>

\* Utils.wait(delay) elapses
BackoffDone ==
    /\ call.pc = "wait"
    /\ call' = retryLoop([call EXCEPT !.attempt = @ + 1])
    /\ UNCHANGED << retryAttempts, retryDelay, ctlVars, norm, txtVars, uiVars >>

(***************************************************************************)
(* Response normalization: N8nClient._processResponse as a function of the *)
(* response body.  A text is a sequence of characters; a field name or a   *)
(* field's content stands as one character.  A body is                     *)
(*   kind "string": a JSON string, `str`;                                  *)
(*   kind "plain":  a body of a non-JSON content type, `str`;              *)
(*   kind "object": a JSON object, `obj` a function from the fields it has *)
(*                  to their (string) values;                              *)
(*   kind "list":   a JSON array of objects, `list`.                       *)
(***************************************************************************)
KeyOrder == <<"error", "text", "response", "message", "output">>

\* the fields _processResponse tries, in its order
TextFields == <<"text", "response", "message", "output">>

Keys(fs) == {fs[i] : i \in 1..Len(fs)}

\* the contents a field may have: "" , " " and a text that names the field
FullValue(f) == <<"<", f, ">", " ">>

FieldValue(f, shape) ==
    CASE shape = "empty" -> <<>>
      [] shape = "blank" -> <<" ">>
      [] shape = "full" -> FullValue(f)

ObjectOf(fs, c) ==
    [f \in {g \in fs : c[g] # "absent"} |-> FieldValue(f, c[f])]

ObjectsOver(fs) ==
    {ObjectOf(fs, c) : c \in [fs -> {"absent", "empty", "blank", "full"}]}

Body(kind, str, obj, list) ==
    [kind |-> kind, str |-> str, obj |-> obj, list |-> list]

RECURSIVE ListsUpTo(_, _)
ListsUpTo(elems, n) ==
    IF n = 0 THEN {<<>>}
    ELSE LET shorter == ListsUpTo(elems, n - 1) IN
         shorter \cup {Append(l, e) : l \in {k \in shorter : Len(k) = n - 1},
                                    e \in elems}

Bodies ==
    {Body("string", s, <<>>, <<>>) : s \in {<<>>, <<" ">>, FullValue("string")}}
    \cup {Body("plain", s, <<>>, <<>>) : s \in {<<>>, FullValue("plain")}}
    \cup {Body("object", <<>>, o, <<>>) : o \in ObjectsOver(Keys(KeyOrder))}
    \cup {Body("list", <<>>, <<>>, l) :
              l \in ListsUpTo(ObjectsOver({"output"}), MaxListLen)}

\* JSON.stringify
StringLiteral(s) == <<"\"">> \o s \o <<"\"">>

RECURSIVE Members(_, _)
Members(o, fs) ==
    IF fs = <<>> THEN <<>>
    ELSE LET here == IF Head(fs) \in DOMAIN o
                     THEN StringLiteral(<<Head(fs)>>) \o <<":">>
                              \o StringLiteral(o[Head(fs)])
                     ELSE <<>>
             rest == Members(o, Tail(fs))
         IN IF here # <<>> /\ rest # <<>>
            THEN here \o <<",">> \o rest
            ELSE here \o rest

StringifyObject(o) == <<"{">> \o Members(o, KeyOrder) \o <<"}">>

RECURSIVE Elements(_)
Elements(l) ==
    IF l = <<>> THEN <<>>
    ELSE IF Len(l) = 1 THEN StringifyObject(l[1])
    ELSE StringifyObject(l[1]) \o <<",">> \o Elements(Tail(l))

Stringify(data) ==
    IF data.kind = "list"
    THEN <<"[">> \o Elements(data.list) \o <<"]">>
    ELSE StringifyObject(data.obj)

\* Utils.sanitizeForSpeech
RECURSIVE RemoveBrackets(_)
RemoveBrackets(s) ==
    IF s = <<>> THEN <<>>
    ELSE IF Head(s) \in {"<", ">"} THEN RemoveBrackets(Tail(s))
    ELSE <<Head(s)>> \o RemoveBrackets(Tail(s))

RECURSIVE CollapseSpace(_)
CollapseSpace(s) ==
    IF s = <<>> THEN <<>>
    ELSE IF IsSpace(Head(s))
    THEN IF Len(s) > 1 /\ IsSpace(s[2])
         THEN CollapseSpace(Tail(s))
         ELSE <<" ">> \o CollapseSpace(Tail(s))
    ELSE <<Head(s)>> \o CollapseSpace(Tail(s))

\* sanitizeForSpeech without its final trim
sanitizeForSpeechUntrimmed(text) == CollapseSpace(RemoveBrackets(text))

sanitizeForSpeech(text) == Trim(CollapseSpace(RemoveBrackets(text)))

\* a string is truthy unless it is empty
Truthy(s) == s # <<>>

\* data.f: the field's value; "" where JavaScript gives undefined
Get(data, f) ==
    IF data.kind = "object" /\ f \in DOMAIN data.obj THEN data.obj[f] ELSE <<>>

\* `data` of _processResponse: response.json(), or { text: response.text() }
Parsed(body) ==
    IF body.kind = "plain"
    THEN Body("object", <<>>, [f \in {"text"} |-> body.str], <<>>)
    ELSE body

Normalized(text) == [ok |-> TRUE, text |-> text]

\* 'Failed to process response from n8n'
ProcessFailed == [ok |-> FALSE, text |-> <<>>]

NoResult == [ok |-> FALSE, text |-> <<"none">>]

\* the body of no response
IdleNorm == [body |-> Body("none", <<>>, <<>>, <<>>), result |-> NoResult]

\* _processResponse taking the first field the body has, empty or not
processResponseBodyFirstPresent(body) ==
    LET data == Parsed(body)
        has(f) == data.kind = "object" /\ f \in DOMAIN data.obj
        responseText ==
            IF data.kind = "string" THEN data.str
            ELSE IF has("text") THEN Get(data, "text")
            ELSE IF has("response") THEN Get(data, "response")
            ELSE IF has("message") THEN Get(data, "message")
            ELSE IF has("output") THEN Get(data, "output")
            ELSE IF /\ data.kind = "list" /\ Len(data.list) > 0
                    /\ "output" \in DOMAIN data.list[1]
                 THEN data.list[1]["output"]
            ELSE Stringify(data)
    IN IF Truthy(Get(data, "error"))
       THEN ProcessFailed
       ELSE Normalized(sanitizeForSpeech(responseText))

\* _processResponse looking for a reply text before it looks at `error`
processResponseBodyTextBeforeError(body) ==
    LET data == Parsed(body)
        responseText ==
            IF data.kind = "string" THEN data.str
            ELSE IF Truthy(Get(data, "text")) THEN Get(data, "text")
            ELSE IF Truthy(Get(data, "response")) THEN Get(data, "response")
            ELSE IF Truthy(Get(data, "message")) THEN Get(data, "message")
            ELSE IF Truthy(Get(data, "output")) THEN Get(data, "output")
            ELSE <<>>
    IN IF responseText # <<>>
       THEN Normalized(sanitizeForSpeech(responseText))
       ELSE IF Truthy(Get(data, "error"))
       THEN ProcessFailed
       ELSE Normalized(sanitizeForSpeech(Stringify(data)))

\* N8nClient._processResponse
processResponseBody(body) ==
    LET data == Parsed(body)
        responseText ==
            IF data.kind = "string" THEN data.str
            ELSE IF Truthy(Get(data, "text")) THEN Get(data, "text")
            ELSE IF Truthy(Get(data, "response")) THEN Get(data, "response")
            ELSE IF Truthy(Get(data, "message")) THEN Get(data, "message")
            ELSE IF Truthy(Get(data, "output")) THEN Get(data, "output")
            ELSE IF /\ data.kind = "list" /\ Len(data.list) > 0
                    /\ "output" \in DOMAIN data.list[1]
                    /\ Truthy(data.list[1]["output"])
                 THEN data.list[1]["output"]
            ELSE Stringify(data)
    IN IF Truthy(Get(data, "error"))
       THEN ProcessFailed
       ELSE Normalized(sanitizeForSpeech(responseText))

\* a 2xx response whose body has arrived is given to _processResponse
ResponseProcessed ==
    /\ norm.body.kind # "none"
    /\ norm.result = NoResult
    /\ norm' = [norm EXCEPT !.result = processResponseBody(norm.body)]
    /\ UNCHANGED << ctlVars, cliVars, txtVars, uiVars >>

\* the JSON objects an attempt may be answered with, when the body of each
\* attempt is followed through _processResponse
AttemptBodies ==
    {Body("object", <<>>, o, <<>>) : o \in ObjectsOver({"error", "text", "output"})}

\* response.json() resolves with `body`: _processResponse, and Utils.retry
\* for what _processResponse returned or threw
BodyProcessed(body) ==
    /\ call.pc = "body"
    /\ LET r == processResponseBody(body) IN
       /\ norm' = [body |-> body, result |-> r]
       /\ call' = IF r.ok
                  THEN retryReturn(call, IF r.text = <<>> THEN "" ELSE "text")
                  ELSE retryCatch(call, "Failed to process response from n8n")
    /\ UNCHANGED << retryAttempts, retryDelay, ctlVars, txtVars, uiVars >>

(***************************************************************************)
(* The two pure functions on texts, each applied to one text.              *)
(***************************************************************************)
\* the texts of at most n characters of alphabet
TextsUpTo(alphabet, n) == UNION {[1..k -> alphabet] : k \in 0..n}

\* the characters of the texts given to isValidSpeech
HeardAlphabet == {"a", "n", "d", "h", "m", "H", " ", "."}

\* the replies that may have been spoken before: none, and "And."
Replies == {<<>>, <<"A", "n", "d", ".">>}

IdleHeard == [reply |-> <<>>, text |-> <<>>, verdict |-> "idle"]

\* processFinalResult asks isValidSpeech about the text
TextValidated ==
    /\ heard.verdict = "none"
    /\ heard' = [heard EXCEPT
                    !.verdict = IF isValidSpeech(heard.text) THEN "accept" ELSE "reject"]
    /\ UNCHANGED << ctlVars, cliVars, norm, spoken, uiVars >>

\* the characters of the texts given to sanitizeForSpeech
SpokenAlphabet == {"<", ">", " ", "\n", "a"}

IdleSpoken == [text |-> <<>>, out |-> <<>>, again |-> <<>>, step |-> 3]

\* _processResponse passes the text through sanitizeForSpeech
TextSanitized ==
    /\ spoken.step = 0
    /\ spoken' = [spoken EXCEPT !.out = sanitizeForSpeech(spoken.text), !.step = 1]
    /\ UNCHANGED << ctlVars, cliVars, norm, heard, uiVars >>

\* the text it returned is passed through sanitizeForSpeech once more
TextSanitizedAgain ==
    /\ spoken.step = 1
    /\ spoken' = [spoken EXCEPT !.again = sanitizeForSpeech(spoken.out), !.step = 2]
    /\ UNCHANGED << ctlVars, cliVars, norm, heard, uiVars >>

(***************************************************************************)
(* Voice-level monitoring (one-shot class).  getUserMedia gives a stream   *)
(* whose tracks are live until each is stopped; closing an AudioContext    *)
(* does not stop them.                                                     *)
(***************************************************************************)
\* the fields as the constructor sets them
IdleMonitor ==
    [awaiting |-> 0, isMonitoringVoiceLevel |-> FALSE,
     voiceLevelInterval |-> FALSE, audioContext |-> FALSE,
     liveTracks |-> FALSE, orphaned |-> FALSE]

\* VoiceProcessor.startVoiceLevelMonitoring up to its await of getUserMedia
startVoiceLevelMonitoring(m) ==
    IF m.isMonitoringVoiceLevel THEN m ELSE [m EXCEPT !.awaiting = @ + 1]

\* startVoiceLevelMonitoring after getUserMedia resolved with a stream: the
\* stream is kept in no field; a context and an interval already held are
\* overwritten
monitoringStarted(m) ==
    [m EXCEPT !.awaiting = @ - 1,
              !.liveTracks = TRUE,
              !.orphaned = @ \/ m.audioContext \/ m.voiceLevelInterval,
              !.audioContext = TRUE,
              !.isMonitoringVoiceLevel = TRUE,
              !.voiceLevelInterval = TRUE]

\* VoiceProcessor.stopVoiceLevelMonitoring
stopVoiceLevelMonitoring(m) ==
    IF ~m.isMonitoringVoiceLevel THEN m
    ELSE [m EXCEPT !.isMonitoringVoiceLevel = FALSE,
                   !.voiceLevelInterval = FALSE,
                   !.audioContext = FALSE]

(***************************************************************************)
(* The conversation display of VoiceAssistantApp.  A message element is    *)
(* [role, text, turn, n]: turn is the handleVoiceResult call that added    *)
(* it, n its rank among the messages ever added (what its timestamp and    *)
(* its place in the document tell).                                        *)
(***************************************************************************)
\* the display before any message
IdleConversation == [log |-> <<>>, turns |-> 0, added |-> 0, silent |-> 0]

\* limitConversationHistory that removes the newest messages
limitConversationHistoryKeepOldest(log) ==
    IF Len(log) > maxMessages THEN SubSeq(log, 1, maxMessages) ELSE log

\* VoiceAssistantApp.limitConversationHistory
limitConversationHistory(log) ==
    IF Len(log) > maxMessages
    THEN SubSeq(log, Len(log) - maxMessages + 1, Len(log))
    ELSE log

\* VoiceAssistantApp.addMessage(type, text)
addMessage(c, type, text) ==
    IF Trim(text) = <<>> THEN c
    ELSE [c EXCEPT
            !.added = @ + 1,
            !.log = limitConversationHistory(
                        Append(@, [role |-> type, text |-> Trim(text),
                                   turn |-> c.turns, n |-> c.added + 1]))]

\* VoiceAssistantApp.handleVoiceResult(transcript, response), as onResult
\* calls it; response.text is the reply's text, or empty
VoiceResult(transcript, responseText) ==
    /\ conv.turns < MaxTurns
    /\ responseText = <<>> => conv.silent < MaxSilentTurns
    /\ LET c0 == [conv EXCEPT !.turns = @ + 1,
                              !.silent = IF responseText = <<>> THEN @ + 1 ELSE @]
           c1 == addMessage(c0, "user", transcript)
       IN conv' = IF responseText # <<>>
                  THEN addMessage(c1, "assistant", responseText)
                  ELSE c1
    /\ UNCHANGED << ctlVars, cliVars, norm, txtVars, mon >>

(***************************************************************************)
(* Init: the state once VoiceAssistantApp.initialize has returned.         *)
(***************************************************************************)
InitOf(cap) ==
    /\ capacity = cap
    /\ isListening = FALSE
    /\ isSpeaking = FALSE
    /\ silenceTimeout = "none"
    /\ speechStartTime = 0
    /\ status = "none"
    /\ rec = "idle"
    /\ pending = EmptyBag
    /\ queue = <<>>
    /\ cancelled = EmptyBag
    /\ synthOk \in BOOLEAN
    /\ starters = 0
    /\ autoStart = TRUE
    /\ n8nUrl \in {"", "good"}
    /\ baseUrl = n8nUrl
    /\ fx = <<>>
    /\ cont = [autoListen |-> TRUE, endTimers |-> 0, speakTimers |-> 0]
    /\ save = [testing |-> "", isFirstRun |-> TRUE, timer |-> FALSE]
    /\ retryAttempts = retryAttemptsDefault
    /\ retryDelay = retryDelayDefault
    /\ call = IdleCall
    /\ mon = IdleMonitor
    /\ conv = IdleConversation

\* no text is followed through the pure functions
IdleTexts == norm = IdleNorm /\ heard = IdleHeard /\ spoken = IdleSpoken

Init == InitOf(MaxProcs) /\ IdleTexts

(***************************************************************************)
(* The recognizer's events.                                                *)
(***************************************************************************)
\* recognition.onstart (the voice-level monitoring it starts, and onend
\* stops, works on the audio-analysis fields only; RecOnStartMonitored and
\* RecOnEndMonitored follow it)
RecOnStart ==
    /\ rec = "starting"
    /\ Set(updateStatus([Cur EXCEPT !.rec = "active", !.isListening = TRUE],
                        "listening"))

\* the body of recognition.onresult for the event's transcripts
onresult(s, final, interim) ==
    LET hasContent == Trim(final) # <<>> \/ Trim(interim) # <<>>
        s1 == [s EXCEPT
                 !.speechStartTime = IF hasContent /\ @ = 0 THEN 1 ELSE @,
                 !.silenceTimeout = "none"]
    IN IF Trim(final) # <<>>
       THEN processFinalResult(s1, Trim(final))
       ELSE IF Trim(interim) # <<>>
            THEN [s1 EXCEPT !.silenceTimeout = "armed"]
            ELSE s1

\* recognition.onresult; results also arrive after stop(), which asks the
\* engine to return what it has heard so far
RecOnResult(final, interim) ==
    /\ rec \in {"active", "stopping"}
    /\ final # <<>> \/ interim # <<>>
    /\ isValidSpeech(Trim(final)) => Suspended < capacity
    /\ Set(onresult(Cur, final, interim))

\* recognition.onerror reporting no error to the UI
RecOnErrorSilent(kind) ==
    /\ rec \in {"starting", "active", "stopping"}
    /\ Set(stopListening(Emit([Cur EXCEPT !.rec = "failed"], "recError", kind)))

\* recognition.onerror
RecOnError(kind) ==
    /\ rec \in {"starting", "active", "stopping"}
    /\ LET s0 == Emit([Cur EXCEPT !.rec = "failed"], "recError", kind)
           s1 == IF kind \in {"not-allowed", "service-not-allowed"}
                 THEN Emit(s0, "onError", "permission")
                 ELSE IF kind = "network"
                      THEN Emit(s0, "onError", "network")
                      ELSE IF kind # "no-speech"
                           THEN Emit(s0, "onError", "recognition")
                           ELSE s0
       IN Set(stopListening(s1))

\* recognition.onend
RecOnEnd ==
    /\ rec \in {"active", "stopping", "failed"}
    /\ Set(updateStatus([Cur EXCEPT !.rec = "idle",
                                    !.isListening = FALSE,
                                    !.silenceTimeout = "none"],
                        "ready"))

\* handleSilenceDetected with its duration test reversed
handleSilenceDetectedReversed(s) ==
    IF silenceThreshold < minSpeechDuration THEN stopListening(s) ELSE s

\* VoiceProcessor.handleSilenceDetected: the timer fires silenceThreshold
\* after the result that armed it, and speechStartTime was set by then
handleSilenceDetected(s) ==
    IF silenceThreshold >= minSpeechDuration THEN stopListening(s) ELSE s

\* the silence timer of recognition.onresult fires
SilenceTimerFires ==
    /\ silenceTimeout = "armed"
    /\ Set(handleSilenceDetected(Emit([Cur EXCEPT !.silenceTimeout = "fired"],
                                       "silenceTimer", "")))

(***************************************************************************)
(* The output engine's events.                                             *)
(***************************************************************************)
\* currentUtterance.onstart
SynthOnStart ==
    /\ queue # <<>>
    /\ queue[1].st = "queued"
    /\ Set(updateStatus([Cur EXCEPT !.queue[1].st = "speaking",
                                    !.isSpeaking = TRUE],
                        "speaking"))

\* the utterance's handlers, with an onerror that reports no status
utteranceSettledSilentError(s, v, ok) ==
    LET s0 == [s EXCEPT !.isSpeaking = FALSE]
        s1 == IF ok THEN updateStatus(s0, "ready") ELSE s0 IN
    IF v.pc = "speakReply" THEN AfterReply(s1, v, ok) ELSE AfterApology(s1, v, ok)

\* currentUtterance.onend (ok) or .onerror of invocation v's utterance, and
\* the continuation of processFinalResult that the settled promise resumes
utteranceSettled(s, v, ok) ==
    LET s1 == updateStatus([s EXCEPT !.isSpeaking = FALSE], "ready") IN
    IF v.pc = "speakReply" THEN AfterReply(s1, v, ok) ELSE AfterApology(s1, v, ok)

\* the utterance at the head of the queue ends, or fails
SynthSettles(ok) ==
    /\ queue # <<>>
    /\ ok => queue[1].st = "speaking"
    /\ Set(utteranceSettled([Cur EXCEPT !.queue = Tail(@)], queue[1].v, ok))

\* the event of an utterance that cancel() removed
CancelledSettles(v, ok) ==
    /\ BagIn(v, cancelled)
    /\ Set(utteranceSettled([Cur EXCEPT !.cancelled = @ (-) SetToBag({v})], v, ok))

(***************************************************************************)
(* The endpoint's answers and the backoff timer.                           *)
(***************************************************************************)
\* the attempt of invocation v succeeds: sendVoiceInput resolves
AttemptSucceeds(v, reply) ==
    /\ BagIn(v, pending)
    /\ v.pc = "fetch"
    /\ Set(ExchangeResolved([Cur EXCEPT !.pending = @ (-) SetToBag({v})], v, reply))

\* the attempt of invocation v fails: sendVoiceInput rejects
AttemptFails(v, err) ==
    /\ BagIn(v, pending)
    /\ v.pc = "fetch"
    /\ Set(AttemptFailed([Cur EXCEPT !.pending = @ (-) SetToBag({v})], v, err))

\* Utils.wait(delay) elapses: the next iteration of the loop of Utils.retry
BackoffElapsed(v) ==
    /\ BagIn(v, pending)
    /\ v.pc = "backoff"
    /\ Set(StartAttempt([Cur EXCEPT !.pending = @ (-) SetToBag({v})],
                        [v EXCEPT !.attempt = @ + 1]))

(***************************************************************************)
(* VoiceAssistantApp: the user's commands and the timers.                  *)
(***************************************************************************)
\* VoiceProcessor.startListening up to its await, as
\* VoiceAssistantApp.startListening calls it
startListening(s) ==
    IF s.isListening
    THEN Emit(s, "showError", "start")
    ELSE [s EXCEPT !.starters = @ + 1]

\* VoiceAssistantApp.toggleListening
toggleListening(s) ==
    IF ~isConfigured(s)
    THEN Emit(s, "showError", "configure")
    ELSE startListening(s)

\* handleStatusChange disables the button for these statuses
ButtonDisabled == status \in {"listening", "processing", "speaking"}

\* click on the toggle button
ButtonClick ==
    /\ ~ButtonDisabled
    /\ starters < MaxStarters
    /\ Set(toggleListening(Cur))

\* keydown Space
SpaceKey ==
    /\ starters < MaxStarters
    /\ Set(toggleListening(Cur))

\* the setTimeout of VoiceAssistantApp.initialize fires
AutoStartTimer ==
    /\ autoStart
    /\ starters < MaxStarters
    /\ Set(startListening([Cur EXCEPT !.autoStart = FALSE]))

\* VoiceProcessor.startListening after requestMicrophonePermission resolved;
\* recognition.start() throws unless the recognizer is idle
PermissionGranted ==
    /\ starters > 0
    /\ LET s0 == [Cur EXCEPT !.starters = @ - 1] IN
       Set(IF s0.rec = "idle"
           THEN Emit([s0 EXCEPT !.rec = "starting"], "recStart", "")
           ELSE Emit(Emit(Emit(s0, "recStartThrows", ""),
                          "onError", "start"), "showError", "start"))

\* VoiceProcessor.startListening after requestMicrophonePermission rejected
PermissionDenied ==
    /\ starters > 0
    /\ LET s0 == [Cur EXCEPT !.starters = @ - 1] IN
       Set(Emit(Emit(s0, "onError", "start"), "showError", "start"))

\* VoiceAssistantApp.saveSettings up to its await of testConnection; the
\* loading overlay covers the panel while a test is awaited
SaveSettings(url) ==
    /\ save.testing = ""
    /\ Set(IF url = ""
           THEN Emit(Cur, "showError", "settings")
           ELSE [Cur EXCEPT !.baseUrl = url, !.save.testing = url])

\* testConnection settles: saveSettings stores the configuration and, on
\* the first save, arms the timer that starts listening
TestConnectionSettles(ok) ==
    /\ save.testing # ""
    /\ LET s0 == [Cur EXCEPT !.save.testing = ""] IN
       Set(IF ~ok
           THEN Emit(s0, "showError", "settings")
           ELSE IF s0.save.isFirstRun
           THEN [s0 EXCEPT !.n8nUrl = save.testing,
                           !.save.isFirstRun = FALSE, !.save.timer = TRUE]
           ELSE [s0 EXCEPT !.n8nUrl = save.testing])

\* the timer of the first save calls VoiceAssistantApp.startListening
FirstSaveTimer ==
    /\ save.timer
    /\ starters < MaxStarters
    /\ Set(startListening([Cur EXCEPT !.save.timer = FALSE]))

MarkDiscard(v) == [v EXCEPT !.discard = TRUE]

\* VoiceAssistantApp.stopAll; the invocations awaiting sendWithRetry are
\* marked, to tell later what became of them
stopAll(s) ==
    stopSpeaking(stopListening(
        Emit([s EXCEPT !.pending = BagOfAll(MarkDiscard, @)], "stopAll", "")))

\* keydown Escape
EscapeKey == Set(stopAll(Cur))

(***************************************************************************)
(* The specification of the turn controller.                               *)
(***************************************************************************)
Next ==
    \/ RecOnStart
    \/ \E f \in FinalTranscripts, i \in InterimTranscripts : RecOnResult(f, i)
    \/ \E k \in {"not-allowed", "network", "no-speech", "aborted"} : RecOnError(k)
    \/ RecOnEnd
    \/ SilenceTimerFires
    \/ SynthOnStart
    \/ \E ok \in BOOLEAN : SynthSettles(ok)
    \/ \E v \in BagToSet(cancelled), ok \in BOOLEAN : CancelledSettles(v, ok)
    \/ \E v \in BagToSet(pending), r \in {"text", "empty"} : AttemptSucceeds(v, r)
    \/ \E v \in BagToSet(pending) : AttemptFails(v, "network")
    \/ \E v \in BagToSet(pending) : BackoffElapsed(v)
    \/ ButtonClick
    \/ SpaceKey
    \/ AutoStartTimer
    \/ PermissionGranted
    \/ PermissionDenied
    \/ EscapeKey

Spec == Init /\ [][Next]_vars

\* the same controller, with room for two overlapping turns
InitOverlap == InitOf(MaxProcs + 1) /\ IdleTexts

SpecOverlap == InitOverlap /\ [][Next]_vars

(***************************************************************************)
(* The turn controller when the engines and the network deliver their      *)
(* events: the recognizer ends once it was stopped or has failed, a queued *)
(* utterance starts or fails, a started one ends or fails, a request is    *)
(* answered or fails, a backoff wait elapses, the microphone permission is *)
(* granted or denied.  The user is under no obligation.                    *)
(***************************************************************************)
RecEndsAfterStop == rec \in {"stopping", "failed"} /\ RecOnEnd

SynthEvent == SynthOnStart \/ \E ok \in BOOLEAN : SynthSettles(ok)

CancelledEvent ==
    \E v \in BagToSet(cancelled), ok \in BOOLEAN : CancelledSettles(v, ok)

NetworkEvent ==
    \E v \in BagToSet(pending) :
        \/ \E r \in {"text", "empty"} : AttemptSucceeds(v, r)
        \/ AttemptFails(v, "network")
        \/ BackoffElapsed(v)

PermissionEvent == PermissionGranted \/ PermissionDenied

FairSpec ==
    /\ Init
    /\ [][Next]_vars
    /\ WF_vars(RecEndsAfterStop)
    /\ WF_vars(SynthEvent)
    /\ WF_vars(CancelledEvent)
    /\ WF_vars(NetworkEvent)
    /\ WF_vars(PermissionEvent)

(***************************************************************************)
(* The turn controller with its voice-level monitoring followed: onstart   *)
(* and onend of the recognizer as a whole, and the getUserMedia promise of *)
(* startVoiceLevelMonitoring.                                              *)
(***************************************************************************)
\* recognition.onstart, with startVoiceLevelMonitoring
RecOnStartMonitored ==
    /\ rec = "starting"
    /\ mon.isMonitoringVoiceLevel \/ mon.awaiting < MaxMonitors
    /\ Assign(updateStatus([Cur EXCEPT !.rec = "active", !.isListening = TRUE],
                           "listening"))
    /\ mon' = startVoiceLevelMonitoring(mon)
    /\ UNCHANGED << cliVars, norm, txtVars, conv >>

\* recognition.onend, with stopVoiceLevelMonitoring
RecOnEndMonitored ==
    /\ rec \in {"active", "stopping", "failed"}
    /\ Assign(updateStatus([Cur EXCEPT !.rec = "idle",
                                       !.isListening = FALSE,
                                       !.silenceTimeout = "none"],
                           "ready"))
    /\ mon' = stopVoiceLevelMonitoring(mon)
    /\ UNCHANGED << cliVars, norm, txtVars, conv >>

\* getUserMedia of startVoiceLevelMonitoring resolves
MonitorStreamGranted ==
    /\ mon.awaiting > 0
    /\ mon' = monitoringStarted(mon)
    /\ Assign(Cur)
    /\ UNCHANGED << cliVars, norm, txtVars, conv >>

\* getUserMedia of startVoiceLevelMonitoring rejects: the catch block logs
MonitorStreamDenied ==
    /\ mon.awaiting > 0
    /\ mon' = [mon EXCEPT !.awaiting = @ - 1]
    /\ Assign(Cur)
    /\ UNCHANGED << cliVars, norm, txtVars, conv >>

MonitorNext ==
    \/ RecOnStartMonitored
    \/ \E f \in FinalTranscripts, i \in InterimTranscripts : RecOnResult(f, i)
    \/ \E k \in {"not-allowed", "network", "no-speech", "aborted"} : RecOnError(k)
    \/ RecOnEndMonitored
    \/ MonitorStreamGranted
    \/ MonitorStreamDenied
    \/ SilenceTimerFires
    \/ SynthOnStart
    \/ \E ok \in BOOLEAN : SynthSettles(ok)
    \/ \E v \in BagToSet(cancelled), ok \in BOOLEAN : CancelledSettles(v, ok)
    \/ \E v \in BagToSet(pending), r \in {"text", "empty"} : AttemptSucceeds(v, r)
    \/ \E v \in BagToSet(pending) : AttemptFails(v, "network")
    \/ \E v \in BagToSet(pending) : BackoffElapsed(v)
    \/ ButtonClick
    \/ SpaceKey
    \/ AutoStartTimer
    \/ PermissionGranted
    \/ PermissionDenied
    \/ EscapeKey

MonitorSpec == Init /\ [][MonitorNext]_vars

(***************************************************************************)
(* The continuous variant: the first VoiceProcessor class of js/voice.js,  *)
(* under the same application.  Its onstart, stopListening, stopSpeaking,  *)
(* startListening and the continuation of processFinalResult read as in    *)
(* the one-shot class; what differs is below.                              *)
(***************************************************************************)
\* VoiceProcessor.processFinalResult (continuous), up to its first await
processFinalResultCont(s, text) ==
    LET s1 == stopListening(
                  [s EXCEPT !.fx = Append(@, [Fx("processFinalResult", "")
                                                EXCEPT !.t = text])])
        v == NewInvocation(text)
    IN StartAttempt(EmitOf(updateStatus(s1, "processing"),
                           "sendWithRetry", "", v), v)

\* the body of recognition.onresult (continuous)
onresultCont(s, final, interim) ==
    LET s1 == [s EXCEPT
                 !.speechStartTime =
                     IF @ = 0 /\ (final # <<>> \/ interim # <<>>) THEN 1 ELSE @,
                 !.silenceTimeout = "none"]
        s2 == IF Trim(final) # <<>>
              THEN [processFinalResultCont(s1, Trim(final))
                      EXCEPT !.speechStartTime = 0]
              ELSE s1
    IN IF Trim(interim) # <<>>
       THEN [s2 EXCEPT !.silenceTimeout = "armed"]
       ELSE s2

\* recognition.onresult (continuous)
RecOnResultCont(final, interim) ==
    /\ rec \in {"active", "stopping"}
    /\ final # <<>> \/ interim # <<>>
    /\ Trim(final) # <<>> => Suspended < capacity
    /\ Set(onresultCont(Cur, final, interim))

\* recognition.onerror (continuous)
RecOnErrorCont(kind) ==
    /\ rec \in {"starting", "active", "stopping"}
    /\ LET s0 == Emit([Cur EXCEPT !.rec = "failed"], "recError", kind)
           s1 == IF kind \in {"not-allowed", "service-not-allowed"}
                 THEN Emit(s0, "onError", "permission")
                 ELSE IF kind = "network"
                      THEN Emit(s0, "onError", "network")
                      ELSE Emit(s0, "onError", "recognition")
       IN Set(stopListening(s1))

\* recognition.onend (continuous): arms the 1000 ms auto-restart timer
RecOnEndCont ==
    /\ rec \in {"active", "stopping", "failed"}
    /\ cont.autoListen => cont.endTimers < MaxTimers
    /\ LET s1 == updateStatus([Cur EXCEPT !.rec = "idle", !.isListening = FALSE],
                              "ready")
       IN Set(IF s1.cont.autoListen
              THEN [s1 EXCEPT !.cont.endTimers = @ + 1]
              ELSE s1)

\* VoiceProcessor.startListening (continuous) up to its await, as the
\* auto-restart timers call it
startListeningCont(s) ==
    IF s.isListening THEN s
    ELSE Emit([s EXCEPT !.starters = @ + 1], "autoRestart", "")

\* the timer armed by recognition.onend fires
EndTimerFires ==
    /\ cont.endTimers > 0
    /\ starters < MaxStarters
    /\ LET s0 == [Cur EXCEPT !.cont.endTimers = @ - 1] IN
       Set(IF ~s0.isSpeaking THEN startListeningCont(s0) ELSE s0)

\* the timer armed by the utterance's onend fires
SpeakTimerFires ==
    /\ cont.speakTimers > 0
    /\ starters < MaxStarters
    /\ LET s0 == [Cur EXCEPT !.cont.speakTimers = @ - 1] IN
       Set(IF s0.cont.autoListen /\ ~s0.isListening
           THEN startListeningCont(s0)
           ELSE s0)

\* VoiceProcessor.handleSilenceDetected (continuous): it only logs
SilenceTimerFiresCont ==
    /\ silenceTimeout = "armed"
    /\ Set([Cur EXCEPT !.silenceTimeout = "fired"])

\* currentUtterance.onend (ok; it arms the 500 ms auto-restart timer) or
\* .onerror (continuous), and the continuation of processFinalResult
utteranceSettledCont(s, v, ok) ==
    LET s1 == updateStatus([s EXCEPT !.isSpeaking = FALSE], "ready")
        s2 == IF ok THEN [s1 EXCEPT !.cont.speakTimers = @ + 1] ELSE s1
    IN IF v.pc = "speakReply" THEN AfterReply(s2, v, ok) ELSE AfterApology(s2, v, ok)

\* the utterance at the head of the queue ends, or fails (continuous)
SynthSettlesCont(ok) ==
    /\ queue # <<>>
    /\ ok => queue[1].st = "speaking" /\ cont.speakTimers < MaxTimers
    /\ Set(utteranceSettledCont([Cur EXCEPT !.queue = Tail(@)], queue[1].v, ok))

\* the event of an utterance that cancel() removed (continuous)
CancelledSettlesCont(v, ok) ==
    /\ BagIn(v, cancelled)
    /\ ok => cont.speakTimers < MaxTimers
    /\ Set(utteranceSettledCont([Cur EXCEPT !.cancelled = @ (-) SetToBag({v})],
                                v, ok))

ContinuousNext ==
    \/ RecOnStart
    \/ \E f \in FinalTranscripts, i \in InterimTranscripts : RecOnResultCont(f, i)
    \/ \E k \in {"not-allowed", "network", "no-speech"} : RecOnErrorCont(k)
    \/ RecOnEndCont
    \/ EndTimerFires
    \/ SpeakTimerFires
    \/ SilenceTimerFiresCont
    \/ SynthOnStart
    \/ \E ok \in BOOLEAN : SynthSettlesCont(ok)
    \/ \E v \in BagToSet(cancelled), ok \in BOOLEAN : CancelledSettlesCont(v, ok)
    \/ \E v \in BagToSet(pending), r \in {"text", "empty"} : AttemptSucceeds(v, r)
    \/ \E v \in BagToSet(pending) : AttemptFails(v, "network")
    \/ \E v \in BagToSet(pending) : BackoffElapsed(v)
    \/ ButtonClick
    \/ SpaceKey
    \/ AutoStartTimer
    \/ PermissionGranted
    \/ PermissionDenied
    \/ EscapeKey

ContinuousSpec == Init /\ [][ContinuousNext]_vars

(***************************************************************************)
(* The specification of the call client.  Timers fire; the endpoint may    *)
(* stay silent for ever.                                                   *)
(***************************************************************************)
ClientNext ==
    \/ \E n \in 0..MaxRetryAttempts, d \in {0, 500} : UpdateConfig(n, d)
    \/ \E text \in {T_empty, T_send} : sendWithRetry(text)
    \/ FetchRejects
    \/ \E ok \in BOOLEAN : FetchResolves(ok)
    \/ \E data \in {"text", "blank", "errorField", "malformed"} : BodyArrives(data)
    \/ TimeoutFires
    \/ BackoffDone

ClientSpec ==
    /\ Init
    /\ [][ClientNext]_vars
    /\ WF_vars(TimeoutFires)
    /\ WF_vars(BackoffDone)

(***************************************************************************)
(* The call client with the body of every answered attempt followed        *)
(* through _processResponse.                                               *)
(***************************************************************************)
AnsweredNext ==
    \/ \E n \in 0..MaxRetryAttempts, d \in {0, 500} : UpdateConfig(n, d)
    \/ \E text \in {T_empty, T_send} : sendWithRetry(text)
    \/ FetchRejects
    \/ \E ok \in BOOLEAN : FetchResolves(ok)
    \/ \E body \in AttemptBodies : BodyProcessed(body)
    \/ TimeoutFires
    \/ BackoffDone

AnsweredSpec == Init /\ [][AnsweredNext]_vars

(***************************************************************************)
(* The specification of the turn controller with the settings panel: the   *)
(* user may save another endpoint URL at any time.                         *)
(***************************************************************************)
SettingsNext ==
    \/ Next
    \/ \E url \in {"", "other"} : SaveSettings(url)
    \/ \E ok \in BOOLEAN : TestConnectionSettles(ok)
    \/ FirstSaveTimer

SettingsSpec == Init /\ [][SettingsNext]_vars

(***************************************************************************)
(* The specification of response normalization: one response of any body   *)
(* shape is processed.                                                     *)
(***************************************************************************)
InitNormalize ==
    /\ InitOf(MaxProcs)
    /\ norm \in [body : Bodies, result : {NoResult}]
    /\ heard = IdleHeard
    /\ spoken = IdleSpoken

NormalizeNext == ResponseProcessed

NormalizeSpec == InitNormalize /\ [][NormalizeNext]_vars

(***************************************************************************)
(* The specification of the conversation display: turn after turn is       *)
(* delivered to handleVoiceResult.                                         *)
(***************************************************************************)
ConversationNext ==
    \E responseText \in {<<>>, T_reply} : VoiceResult(Trim(T_send), responseText)

ConversationSpec == Init /\ [][ConversationNext]_vars

(***************************************************************************)
(* The specifications of the validator and of the sanitizer: one text of   *)
(* any content is given to the function.                                   *)
(***************************************************************************)
InitValidator ==
    /\ InitOf(MaxProcs)
    /\ norm = IdleNorm
    /\ spoken = IdleSpoken
    /\ heard \in [reply : Replies, text : TextsUpTo(HeardAlphabet, MaxTextLen),
                  verdict : {"none"}]

ValidatorNext == TextValidated

ValidatorSpec == InitValidator /\ [][ValidatorNext]_vars

InitSanitize ==
    /\ InitOf(MaxProcs)
    /\ norm = IdleNorm
    /\ heard = IdleHeard
    /\ spoken \in [text : TextsUpTo(SpokenAlphabet, MaxTextLen),
                   out : {<<>>}, again : {<<>>}, step : {0}]

SanitizeNext == TextSanitized \/ TextSanitizedAgain

SanitizeSpec == InitSanitize /\ [][SanitizeNext]_vars

(***************************************************************************)
(* Properties of the turn controller.  They read `fx`, the calls and       *)
(* callbacks of the task that led to the state.                            *)
(***************************************************************************)
HasFx(e) == \E i \in 1..Len(fx) : fx[i].e = e

HasFxOf(e, a) == \E i \in 1..Len(fx) : fx[i].e = e /\ fx[i].a = a

\* the task delivered a final transcript that the validator rejects
RejectedFinal ==
    \E i \in 1..Len(fx) :
        fx[i].e = "processFinalResult" /\ ~isValidSpeech(fx[i].t)

\* C1: at most one sendWithRetry call started by processFinalResult is
\* pending at any time.
C1_AtMostOneExchange == BagCardinality(pending) <= 1

\* C2: while an Exchange is pending no task calls recognition.start() and
\* none turns isListening on (onstart, which reports 'listening').
C2_CaptureStoppedWhilePending ==
    pending # EmptyBag =>
        ~HasFx("recStart") /\ ~HasFxOf("status", "listening")

\* C3: no state has the recognizer capturing (isListening, no stop asked)
\* while isSpeaking, and no task calls recognition.start() while isSpeaking.
C3_CaptureStoppedWhileSpeaking ==
    /\ ~(isListening /\ isSpeaking /\ rec = "active")
    /\ isSpeaking => ~HasFx("recStart")

\* C4: when stopAll has run in Listening, Processing or Speaking,
\* isListening and isSpeaking are false and the last status is 'ready'.
C4_StopAllReturnsToIdle ==
    HasFx("stopAll") /\ status \in {"listening", "processing", "speaking"} =>
        ~isListening /\ ~isSpeaking /\ status = "ready"

\* C5: for an Exchange that was pending when stopAll ran, processFinalResult
\* neither calls speak() nor invokes onResult.
C5_StoppedExchangeDiscarded ==
    \A i \in 1..Len(fx) : fx[i].d => fx[i].e \notin {"speak", "onResult"}

\* C6: a final transcript that the validator rejects creates no Exchange:
\* no sendWithRetry call, no request, no status 'processing', and the status
\* is back to 'ready'.
C6_RejectedFinalNoExchange ==
    RejectedFinal =>
        /\ ~HasFx("sendWithRetry")
        /\ ~HasFx("fetch")
        /\ ~HasFxOf("status", "processing")
        /\ status \in {"ready", "listening"}

C6_Witness ==
    /\ \E i \in 1..Len(fx) : fx[i].e = "processFinalResult" /\ fx[i].t = T_um
    /\ status = "ready"
    /\ pending = EmptyBag

C11_AutoRestartOnlyWhenQuiet ==
    HasFx("autoRestart") =>
        pending = EmptyBag /\ queue = <<>> /\ ~isSpeaking

ErrorSurfaced ==
    \E i \in 1..Len(fx) : fx[i].e = "onError" /\ fx[i].t # <<>>

C14_ReplyLeadsToResult == HasFxOf("speak", "reply") ~> HasFx("onResult")

\* C17: a failed attempt that is not the last one only arms the backoff
\* wait: its task calls neither speak nor onError.  A task invokes onError
\* at most once; an Exchange's failure reaches onError, and the apology for
\* it is spoken, only for an invocation whose attempt is the last configured
\* one.
C17_OnlyFinalFailureSurfaced ==
    /\ HasFx("wait") =>
           /\ ~HasFx("speak") /\ ~HasFx("onError")
           /\ \A i \in 1..Len(fx) :
                  fx[i].e = "wait" => fx[i].n < retryAttemptsDefault
    /\ Cardinality({i \in 1..Len(fx) : fx[i].e = "onError"}) <= 1
    /\ \A i \in 1..Len(fx) :
           /\ fx[i].e = "onError" /\ fx[i].a \in {"network", "unconfigured"}
                  /\ fx[i].t # <<>>
              => fx[i].n = retryAttemptsDefault
           /\ fx[i].e = "speak" /\ fx[i].a = "apology"
                  /\ fx[1] # Fx("status", "ready")
              => fx[i].n = retryAttemptsDefault

\* the second failed attempt has armed the second wait
C17_Witness ==
    /\ fx = <<[Fx("wait", "network") EXCEPT !.t = Trim(T_send), !.n = 2]>>
    /\ status = "ready"
    /\ ~isSpeaking
    /\ queue = <<>>

\* C18: the task in which an utterance ends or fails (it first reports
\* 'ready') completes the turn: it makes no further speak() call, and so
\* the reply's speech-output error is not answered by more speech.
C18_SpeechErrorCompletesTurn ==
    fx # <<>> /\ fx[1] = Fx("status", "ready") =>
        /\ ~HasFx("speak")
        /\ status = "ready"

\* C19: while the endpoint URL is missing or invalid, no start path starts
\* the recognizer: recognition.start() is not called and the recognizer
\* stays idle.
C19_UnconfiguredNeverStarts ==
    ~validateN8nUrl(n8nUrl) =>
        /\ ~HasFx("recStart")
        /\ rec = "idle"
        /\ ~isListening

\* C20: every attempt of an Exchange that began with a configured endpoint
\* sends its request to the URL the Exchange's first attempt used, whatever
\* is saved in the settings panel meanwhile.
C20_AttemptsUseSessionUrl ==
    \A i \in 1..Len(fx) :
        fx[i].e = "fetch" =>
            \A v \in BagToSet(pending) :
                v.pc = "fetch" /\ v.attempt = fx[i].n /\ validateN8nUrl(v.url)
                    => fx[i].a = v.url

\* C21: with autoListen set, once a turn has completed (onResult delivered,
\* the page's start timer already spent) the controller re-enters Listening
\* by itself.
C21_AutoListenReentersListening ==
    (cont.autoListen /\ ~autoStart /\ ~save.timer /\ HasFx("onResult"))
        ~> isListening

\* C22: a recognizer 'no-speech' error is not surfaced: the task of that
\* error event does not invoke onError; it only stops capture.
C22_NoSpeechNotSurfaced ==
    HasFxOf("recError", "no-speech") =>
        /\ ~HasFx("onError")
        /\ ~HasFx("showError")
        /\ silenceTimeout # "armed"
        /\ rec = "failed"

C24_StopCalledOncePerSession ==
    [][HasFx("recStop")' =>
           /\ rec \in {"active", "failed"}
           /\ Cardinality({i \in 1..Len(fx') : fx'[i].e = "recStop"}) = 1]_vars

\* C25: whenever capture is stopped or has been asked to stop (the
\* recognizer is idle, stopping or has failed), no silence timer is pending.
C25_StoppedCaptureHasNoTimer ==
    rec \in {"idle", "stopping", "failed"} => silenceTimeout # "armed"

\* C29: while the silence timer is armed the controller is listening and
\* the start of speech is recorded; the task in which the timer fires calls
\* recognition.stop() - the minimum-speech-duration test lets it through -
\* and leaves the recognizer asked to stop, with no timer pending.
C29_SilenceTimerStopsCapture ==
    /\ silenceTimeout = "armed" =>
           isListening /\ rec \in {"active", "stopping"} /\ speechStartTime # 0
    /\ silenceTimeout # "fired"
    /\ HasFx("silenceTimer") =>
           /\ fx = <<Fx("silenceTimer", ""), Fx("recStop", "")>>
           /\ rec = "stopping"
           /\ silenceTimeout = "none"

\* an interim transcript, then silence: capture is stopped, no Exchange
C29_Witness ==
    /\ HasFx("silenceTimer")
    /\ HasFx("recStop")
    /\ rec = "stopping"
    /\ status = "listening"
    /\ pending = EmptyBag
    /\ queue = <<>>

\* C30: a silence timer armed for an earlier session never reaches a later
\* one: when the recognizer is being started, and so has delivered no result
\* of the new session yet, no silence timer is pending.
C30_NoStaleTimerInNewSession ==
    rec = "starting" => silenceTimeout # "armed"

\* C31: once the recognizer has ended, voice-level monitoring is inactive:
\* isMonitoringVoiceLevel is false, no sampling interval is running, no audio
\* context is open (none left behind either), and the tracks of the
\* microphone stream are stopped.
C31_MonitoringTornDownAfterEnd ==
    rec = "idle" =>
        /\ ~mon.isMonitoringVoiceLevel
        /\ ~mon.voiceLevelInterval
        /\ ~mon.audioContext
        /\ ~mon.orphaned
        /\ ~mon.liveTracks

\* C32: the conversation display holds at most 50 messages; they are the
\* most recently added ones, in the order they were added (the oldest are
\* removed first); within one turn the user message comes before the
\* assistant message, and next to it.
C32_LogHoldsMostRecentInOrder ==
    LET log == conv.log IN
    /\ Len(log) <= maxMessages
    /\ Len(log) = IF conv.added < maxMessages THEN conv.added ELSE maxMessages
    /\ \A i \in 1..Len(log) : log[i].n = conv.added - Len(log) + i
    /\ \A i \in 1..Len(log) :
           \A j \in 1..Len(log) :
               /\ log[i].turn = log[j].turn
               /\ log[i].role = "user" /\ log[j].role = "assistant"
               => j = i + 1
    /\ \A i \in 2..Len(log) :
           log[i].role = "assistant" =>
               log[i - 1].role = "user" /\ log[i - 1].turn = log[i].turn

\* 51 messages were added: the user message of the first turn is gone, and
\* the assistant message of that turn is the oldest one left
C32_Witness ==
    /\ conv.added = maxMessages + 1
    /\ Len(conv.log) = maxMessages
    /\ conv.log[1].n = 2
    /\ conv.log[1].role = "assistant"
    /\ conv.log[1].turn = 1
    /\ conv.log[maxMessages].n = conv.added

\* C33: whenever the last status given to onStatusChange is 'ready', no
\* Exchange is pending and the output engine is not speaking.
C33_ReadyMeansQuiet ==
    status = "ready" => pending = EmptyBag /\ ~isSpeaking

\* C34: every accepted utterance (processFinalResult calls sendWithRetry for
\* it) leads to onResult or to onError for its turn, and no task of a turn
\* invokes both.
C34_ExactlyOneOfResultOrError ==
    /\ [](~(HasFx("onResult") /\ ErrorSurfaced))
    /\ HasFx("sendWithRetry") ~> (HasFx("onResult") \/ ErrorSurfaced)

\* C35: recognition.start() is never called on a recognizer that is already
\* started or starting (where the call throws).
C35_NeverStartedTwice ==
    HasFx("recStartThrows") => rec \notin {"starting", "active"}

\* C36: a sendWithRetry call that has resolved made at least one attempt,
\* its last attempt succeeded, and it resolved with that attempt's reply.
C36_ResolvesOnlyWithAReply ==
    call.pc = "resolved" =>
        /\ call.sends >= 1
        /\ call.outcomes # <<>>
        /\ call.outcomes[Len(call.outcomes)].ok
        /\ call.result = [kind |-> "value",
                          val |-> call.outcomes[Len(call.outcomes)].val]

\* C37: when no save is awaiting its connection test, the endpoint of the
\* call client is the stored n8nUrl of the configuration; a save that failed
\* has left n8nClient.baseUrl as it was.
C37_ClientUrlIsStoredUrl == save.testing = "" => baseUrl = n8nUrl

(***************************************************************************)
(* Properties of response normalization.                                   *)
(***************************************************************************)
\* position in TextFields of the first field for which `wins` holds, or 0
FirstField(wins(_)) ==
    IF \E i \in 1..Len(TextFields) : wins(TextFields[i])
    THEN CHOOSE i \in 1..Len(TextFields) :
             /\ wins(TextFields[i])
             /\ \A j \in 1..(i - 1) : ~wins(TextFields[j])
    ELSE 0

\* C15 as stated: the reply text is the string body; otherwise the first
\* field among text, response, message, output that the body has, empty or
\* not; otherwise the first element's output when the body is a list that
\* has one; otherwise the body JSON-stringified.
C15_FirstPresentFieldWins ==
    norm.result # NoResult =>
        LET data == Parsed(norm.body)
            present(f) == data.kind = "object" /\ f \in DOMAIN data.obj
            i == FirstField(present)
            chosen ==
                IF data.kind = "string" THEN data.str
                ELSE IF i > 0 THEN data.obj[TextFields[i]]
                ELSE IF /\ data.kind = "list" /\ data.list # <<>>
                        /\ "output" \in DOMAIN data.list[1]
                     THEN data.list[1]["output"]
                ELSE Stringify(data)
        IN norm.result = Normalized(sanitizeForSpeech(chosen))

\* C15 as the code has it: a body with a non-empty `error` field fails the
\* attempt; otherwise the reply text is the string body; otherwise the first
\* NON-EMPTY field among text, response, message, output (an empty field is
\* passed over like a missing one); otherwise the first element's non-empty
\* output when the body is a list; otherwise the body JSON-stringified.  A
\* body of another content type is handled as { text: body }.
C15_FirstNonEmptyFieldWins ==
    norm.result # NoResult =>
        LET data == Parsed(norm.body)
            nonEmpty(f) ==
                data.kind = "object" /\ f \in DOMAIN data.obj /\ data.obj[f] # <<>>
            i == FirstField(nonEmpty)
            chosen ==
                IF data.kind = "string" THEN data.str
                ELSE IF i > 0 THEN data.obj[TextFields[i]]
                ELSE IF /\ data.kind = "list" /\ data.list # <<>>
                        /\ "output" \in DOMAIN data.list[1]
                        /\ data.list[1]["output"] # <<>>
                     THEN data.list[1]["output"]
                ELSE Stringify(data)
        IN IF nonEmpty("error")
           THEN norm.result = ProcessFailed
           ELSE norm.result = Normalized(sanitizeForSpeech(chosen))

\* { "text": "", "response": "..." } gives the response field
C15_Witness ==
    /\ norm.body.kind = "object"
    /\ DOMAIN norm.body.obj = {"text", "response"}
    /\ norm.body.obj["text"] = <<>>
    /\ norm.result = Normalized(<<"response">>)

(***************************************************************************)
(* Properties of the validator and of the sanitizer.                       *)
(***************************************************************************)
\* the first 15 characters of the text are the beginning of the reply,
\* letter case aside
IsEchoOf(text, reply) ==
    LET u == LowerCase(Trim(text))
        r == LowerCase(reply)
        n == IF Len(u) < 15 THEN Len(u) ELSE 15
    IN n > 0 /\ Len(r) >= n /\ SubSeq(u, 1, n) = SubSeq(r, 1, n)

\* C26: the validator rejects every text whose first 15 characters match
\* the beginning of the reply spoken before it, case-insensitively.
C26_EchoRejected ==
    heard.verdict \in {"accept", "reject"} /\ IsEchoOf(heard.text, heard.reply)
        => heard.verdict = "reject"

\* some stop-words, alone
LoneStopWords == {<<"a">>, <<"a", "n">>, <<"a", "n", "d">>, <<"h", "a", "d">>}

\* C27: the validator rejects every text whose trimmed length is below 3,
\* and every text that is a bare interjection, pure punctuation, a single
\* letter or a lone stop-word.
C27_ShortAndNoiseRejected ==
    LET s == Trim(heard.text) IN
    heard.verdict \in {"accept", "reject"} =>
        /\ Len(s) < 3 => heard.verdict = "reject"
        /\ LowerCase(s) \in Interjections => heard.verdict = "reject"
        /\ (s # <<>> /\ \A i \in 1..Len(s) : IsPunct(s[i]))
               => heard.verdict = "reject"
        /\ (Len(s) = 1 /\ IsLetter(s[1])) => heard.verdict = "reject"
        /\ LowerCase(s) \in LoneStopWords => heard.verdict = "reject"

Failures(c) == {i \in 1..Len(c.outcomes) : ~c.outcomes[i].ok}

\* C8: with maxAttempts N >= 1, Utils.retry invokes send at most N times,
\* stops at the first success and returns its result, and after N failures
\* rejects with the last failure.
C8_RetryStopsAtSuccessOrAfterN ==
    call.maxAttempts >= 1 =>
        /\ call.sends <= call.maxAttempts
        /\ Len(call.outcomes) <= call.sends
        /\ \A i \in 1..Len(call.outcomes) :
               call.outcomes[i].ok => i = Len(call.outcomes) /\ call.pc = "resolved"
        /\ call.pc = "resolved" =>
               /\ call.outcomes # <<>>
               /\ call.sends = Len(call.outcomes)
               /\ call.outcomes[Len(call.outcomes)].ok
               /\ call.result = [kind |-> "value",
                                 val |-> call.outcomes[Len(call.outcomes)].val]
        /\ call.pc = "rejected" =>
               /\ call.sends = call.maxAttempts
               /\ Len(call.outcomes) = call.maxAttempts
               /\ Failures(call) = 1..call.maxAttempts
               /\ call.result = [kind |-> "error",
                                 val |-> call.outcomes[call.maxAttempts].val]

\* fails twice, then succeeds: the success, after exactly 3 attempts
C8_Witness ==
    /\ call.maxAttempts = 3
    /\ call.pc = "resolved"
    /\ call.sends = 3
    /\ Failures(call) = {1, 2}
    /\ call.outcomes[1].val # call.outcomes[2].val
    /\ call.result = [kind |-> "value", val |-> "text"]

\* C9: the wait after failed attempt k, 1 <= k < N, is baseDelay * 2^(k-1);
\* the waits do not decrease; there is no wait before the first attempt and
\* none after the final failed attempt.
C9_BackoffLaw ==
    /\ \A k \in 1..Len(call.waits) :
           /\ k < call.maxAttempts
           /\ k \in Failures(call)
           /\ call.waits[k] = call.baseDelay * 2 ^ (k - 1)
           /\ k > 1 => call.waits[k - 1] <= call.waits[k]
    /\ Len(call.waits) =
           IF call.pc = "rejected" THEN Cardinality(Failures(call)) - 1
           ELSE Cardinality(Failures(call))
    /\ call.pc = "wait" <=> Len(call.waits) = call.sends /\ call.sends > 0
    /\ call.pc \in {"fetch", "body"} => Len(call.waits) = call.sends - 1

\* three failures with the default configuration: waits of 1000 and 2000
C9_Witness ==
    /\ call.pc = "rejected"
    /\ call.maxAttempts = retryAttemptsDefault
    /\ call.baseDelay = retryDelayDefault
    /\ call.waits = << 1000, 2000 >>

\* C38: an attempt whose 2xx response carries a non-empty `error` field is
\* a failed attempt whatever else the body carries: _processResponse gives
\* no reply text, the attempt is recorded as the failure 'Failed to process
\* response from n8n', and Utils.retry treats it like any failure: the
\* backoff wait of that attempt, or the rejection after the last attempt.
C38_ErrorFieldFailsAttempt ==
    call.response = "ok" /\ call.pc # "body" /\ Truthy(Get(norm.body, "error")) =>
        /\ norm.result = ProcessFailed
        /\ call.outcomes # <<>>
        /\ Len(call.outcomes) = call.sends
        /\ call.outcomes[Len(call.outcomes)] =
               [ok |-> FALSE, val |-> "Failed to process response from n8n"]
        /\ call.result.kind # "value"
        /\ call.pc = IF LastAttempt(call.attempt, call.maxAttempts)
                     THEN "rejected" ELSE "wait"
        /\ call.pc = "wait" =>
               call.waits[Len(call.waits)] = BackoffDelay(call.attempt, call.baseDelay)

\* { "error": ..., "text": ..., "output": ... } answers the first attempt:
\* the attempt has failed and the first backoff wait is armed
C38_Witness ==
    /\ DOMAIN norm.body.obj = {"error", "text", "output"}
    /\ \A f \in DOMAIN norm.body.obj : norm.body.obj[f] = FullValue(f)
    /\ call.response = "ok"
    /\ call.pc = "wait"
    /\ call.attempt = 1
    /\ call.maxAttempts = retryAttemptsDefault
    /\ call.waits = << retryDelayDefault >>

\* C16: a response whose ok flag is false fails the attempt with the HTTP
\* error before its body is read: _processResponse (reached from "body")
\* only ever gets a response whose ok flag is set, and the attempt of a
\* non-2xx response is recorded as the failure 'HTTP <status>', never as
\* a reply.
C16_Non2xxFailsBeforeParsing ==
    /\ call.pc = "body" => call.response = "ok"
    /\ call.response = "bad" =>
           /\ call.pc \in {"wait", "rejected"}
           /\ call.outcomes[Len(call.outcomes)] = [ok |-> FALSE, val |-> "HTTP"]
           /\ Len(call.outcomes) = call.sends
           /\ call.result.kind # "value"

\* every attempt answered by a non-2xx response: rejected with the HTTP error
C16_Witness ==
    /\ call.response = "bad"
    /\ call.pc = "rejected"
    /\ call.maxAttempts = retryAttemptsDefault
    /\ \A i \in 1..Len(call.outcomes) : call.outcomes[i].val = "HTTP"
    /\ call.result = [kind |-> "error", val |-> "HTTP"]

\* C10: every sendVoiceInput call that awaits the endpoint settles in the
\* end, whichever phase (the response, or its body) the endpoint stalls in.
C10_SendVoiceInputSettles ==
    (call.pc = "fetch") ~> (call.pc \notin {"fetch", "body"})

====
